---- MODULE Spec2Model ----
(***************************************************************************)
(* Model of the SGP30 gas-sensor driver (src/sgp30.py): the checksum       *)
(* function generate_crc, the command/reply word codec, and the SGP30      *)
(* class with its bus transactions.                                        *)
(*                                                                         *)
(* Python integers are unbounded.  Where the code uses bitwise operators   *)
(* (^, <<, >>, &, |) an integer is represented by the set of positions of  *)
(* its one bits, so that no width is assumed that the code does not have.  *)
(***************************************************************************)
EXTENDS Integers, Sequences, FiniteSets, TLC

(***************************************************************************)
(* Module constants of sgp30.py.                                           *)
(***************************************************************************)
SGP30_DEFAULT_I2C_ADDR == 88

SGP30_FEATURESET == 32

SGP30_CRC8_POLYNOMIAL == 49

SGP30_CRC8_INIT == 255

SGP30_WORD_LEN == 2

(***************************************************************************)
(* Bounds of the model.                                                    *)
(***************************************************************************)
\* longest byte sequence handed to generate_crc in SpecCrc
MaxDataLen == 2

(***************************************************************************)
(* Python integers as bit sets.                                            *)
(***************************************************************************)
RECURSIVE BitsFrom(_, _)
BitsFrom(n, i) ==
    IF n = 0 THEN {}
    ELSE (IF n % 2 = 1 THEN {i} ELSE {}) \cup BitsFrom(n \div 2, i + 1)

\* the one-bit positions of the non-negative integer n
BitsOf(n) == BitsFrom(n, 0)

RECURSIVE ValueOf(_)
ValueOf(bits) ==
    IF bits = {} THEN 0
    ELSE LET i == CHOOSE j \in bits : TRUE
         IN  2^i + ValueOf(bits \ {i})

\* a ^ b
Xor(a, b) == (a \ b) \cup (b \ a)

\* a & b
And(a, b) == a \cap b

\* a | b
Or(a, b) == a \cup b

\* a << n
Shl(a, n) == {i + n : i \in a}

\* a >> n
Shr(a, n) == {i - n : i \in {j \in a : j >= n}}

(***************************************************************************)
(* generate_crc (sgp30.py, lines 108-119).                                 *)
(***************************************************************************)
\* the literals 0x80 and 0xFF and the two CRC constants, as bit sets
Bits0x80 == BitsOf(128)

Bits0xFF == BitsOf(255)

PolynomialBits == BitsOf(SGP30_CRC8_POLYNOMIAL)

InitBits == BitsOf(SGP30_CRC8_INIT)

\* faulty variant: tests 0x40 instead of 0x80
CrcHighBitSetMutant(crc) == And(crc, BitsOf(64)) # {}

\* the test "crc & 0x80" of line 115
CrcHighBitSet(crc) == And(crc, Bits0x80) # {}

\* one pass of the inner loop body, lines 115-118
CrcShift(crc) ==
    IF CrcHighBitSet(crc)
    THEN Xor(Shl(crc, 1), PolynomialBits)
    ELSE Shl(crc, 1)

\* for _ in range(8), line 114
RECURSIVE CrcShiftN(_, _)
CrcShiftN(crc, n) ==
    IF n = 0 THEN crc ELSE CrcShiftN(CrcShift(crc), n - 1)

\* for byte in data, lines 112-118
RECURSIVE CrcBytes(_, _)
CrcBytes(crc, data) ==
    IF data = <<>> THEN crc
    ELSE CrcBytes(CrcShiftN(Xor(crc, BitsOf(Head(data))), 8), Tail(data))

\* the accumulator when the loops are left: not masked, may exceed 8 bits
CrcAccumulator(data) == CrcBytes(InitBits, data)

\* faulty variant: returns the accumulator without the final "& 0xFF"
generate_crc_unmasked(data) == ValueOf(CrcAccumulator(data))

generate_crc(data) == ValueOf(And(CrcAccumulator(data), Bits0xFF))

(***************************************************************************)
(* The word codec: the payload word built by the iaq_baseline setter       *)
(* (lines 79-81) and the reply decoding loop of _i2c_read_words_from_cmd   *)
(* (lines 98-105).                                                         *)
(***************************************************************************)
\* a value returned: kind is "None", "list" or "int"; exc is "none" or the
\* exception raised instead
Returned(kind, value) == [exc |-> "none", kind |-> kind, value |-> value]

Raised(exc) == [exc |-> exc, kind |-> "None", value |-> <<>>]

\* arr = [value >> 8, value & 0xFF]; arr.append(generate_crc(arr))
EncodeWord(value) ==
    LET arr == << ValueOf(Shr(BitsOf(value), 8)),
                  ValueOf(And(BitsOf(value), Bits0xFF)) >>
    IN  Append(arr, generate_crc(arr))

\* faulty variant: combines the two bytes little-endian
CombineWordMutant(word) == ValueOf(Or(Shl(BitsOf(word[2]), 8), BitsOf(word[1])))

\* word[0] << 8 | word[1], line 104
CombineWord(word) == ValueOf(Or(Shl(BitsOf(word[1]), 8), BitsOf(word[2])))

\* faulty variant: compares the low 7 bits only
CrcMismatchMutant(word, crc) == generate_crc(word) % 128 # crc % 128

\* the comparison of line 102: TRUE when the word's checksum is rejected
CrcMismatch(word, crc) == generate_crc(word) # crc

\* faulty variant: leaves the loop at a mismatch and returns the words it has
RECURSIVE DecodeFromMutant(_, _, _, _)
DecodeFromMutant(crc_result, reply_size, i, result) ==
    IF i >= reply_size THEN Returned("list", result)
    ELSE LET word == << crc_result[3 * i + 1], crc_result[3 * i + 2] >>
             crc  == crc_result[3 * i + 3]
         IN  IF CrcMismatch(word, crc)
             THEN Returned("list", result)
             ELSE DecodeFromMutant(crc_result, reply_size, i + 1,
                                   Append(result, CombineWord(word)))

\* the loop of lines 99-104 from index i (0-based) on; result holds the words
\* appended so far.  A mismatch raises: the words collected are dropped.
RECURSIVE DecodeFrom(_, _, _, _)
DecodeFrom(crc_result, reply_size, i, result) ==
    IF i >= reply_size THEN Returned("list", result)
    ELSE LET word == << crc_result[3 * i + 1], crc_result[3 * i + 2] >>
             crc  == crc_result[3 * i + 3]
         IN  IF CrcMismatch(word, crc)
             THEN Raised("CRC Error")
             ELSE DecodeFrom(crc_result, reply_size, i + 1,
                             Append(result, CombineWord(word)))

\* lines 98-105: result = []; the loop; return result
DecodeWords(crc_result, reply_size) == DecodeFrom(crc_result, reply_size, 0, <<>>)

(***************************************************************************)
(* Inputs of the model: the callers, the addresses a caller constructs     *)
(* with, the replies the bus delivers, the values a caller passes.         *)
(***************************************************************************)
Callers == {1, 2}

Addresses == {SGP30_DEFAULT_I2C_ADDR, 89}

\* 0x0020 (the feature set) and 0xBEEF
ReplyWords == {32, 48879}

\* a reply triple whose checksum byte is off by one
Corrupt(t) == [t EXCEPT ![3] = (@ + 1) % 256]

\* the triples the bus delivers: each word well formed, and corrupted
ReplyTriples ==
    {EncodeWord(w) : w \in ReplyWords} \cup {Corrupt(EncodeWord(w)) : w \in ReplyWords}

\* the replies of n triples
RECURSIVE RepliesOfSize(_)
RepliesOfSize(n) ==
    IF n = 0 THEN {<<>>}
    ELSE {r \o t : r \in RepliesOfSize(n - 1), t \in ReplyTriples}

\* what readfrom_into may leave in a buffer of 3 * n bytes, n up to the
\* 3 words of the serial number
Replies == [n \in 0..3 |-> RepliesOfSize(n)]

\* 0, 0x1234, 0xBEEF, and 0x10000, which is no 16-bit value
BaselineValues == {0, 1, 4660, 48879, 65536}

\* with two callers the inputs are fewer: one address, the replies made of
\* the feature-set word and of one corrupted triple, two baseline values
RECURSIVE FewRepliesOfSize(_)
FewRepliesOfSize(n) ==
    IF n = 0 THEN {<<>>}
    ELSE {r \o t : r \in FewRepliesOfSize(n - 1),
                   t \in {EncodeWord(32), Corrupt(EncodeWord(48879))}}

FewReplies == [n \in 0..3 |-> FewRepliesOfSize(n)]

(***************************************************************************)
(* State.                                                                  *)
(***************************************************************************)
VARIABLES
    callers,     \* the callers that use the object (threads of the application)
    init_pc,     \* position of SGP30.__init__: "not called", "line 29",
                 \* "line 31", "line 34", "returned", "raised"
    addr,        \* self._addr
    serial,      \* self.serial (<<>> until line 29 has assigned it)
    featureset,  \* the local featureset of __init__ (<<>> until line 31)
    op,          \* per caller: the method or property it is in, or "none"
    args,        \* per caller: the arguments of that call
    pc,          \* per caller: position in _i2c_read_words_from_cmd:
                 \* "idle", "writeto", "sleep", "readfrom_into", "return"
    command,     \* per caller: parameter command
    delay,       \* per caller: parameter delay, in milliseconds
    reply_size,  \* per caller: parameter reply_size
    crc_result,  \* per caller: the buffer crc_result (<<>> before the read)
    txret,       \* per caller: what _i2c_read_words_from_cmd returns or raises
    ret,         \* per caller: what its last finished call returned or raised
    bus,         \* per caller: the calls made to the bus object and to
                 \* time.sleep since its current call began
    data,        \* SpecCrc: the argument of generate_crc
    crc_out,     \* SpecCrc: the value generate_crc returned (-1: not called)
    crc_prev,    \* SpecCrc: the value the call before returned (-1: none)
    word,        \* SpecCodec: the 16-bit word to encode
    triple,      \* SpecCodec: its 3 bytes on the wire (<<>>: not encoded)
    flipped,     \* SpecCodec: the bit of the triple flipped in transit (-1: none)
    decoded,     \* SpecCodec: what the reply decoder made of the triple
    serialized,  \* whether the application's callers hold one mutex around
                 \* each call they make on the object
    lock,        \* the caller that holds the application's mutex (0: free)
    last_writer, \* the caller whose writeto reached the bus last (0: none)
    read_after   \* per caller: last_writer when its readfrom_into ran (0: no
                 \* read in its current call)

driverVars == << callers, init_pc, addr, serial, featureset, op, args, pc, command,
                 delay, reply_size, crc_result, txret, ret, bus >>

crcVars == << data, crc_out, crc_prev >>

codecVars == << word, triple, flipped, decoded >>

concVars == << serialized, lock, last_writer, read_after >>

vars == << driverVars, crcVars, codecVars, concVars >>

\* more than one caller uses the object
Concurrent == Cardinality(callers) > 1

AddressChoices == IF Concurrent THEN {SGP30_DEFAULT_I2C_ADDR} ELSE Addresses

ReplyChoices(n) == IF Concurrent THEN FewReplies[n] ELSE Replies[n]

BaselineChoices == IF Concurrent THEN {0, 48879} ELSE BaselineValues

NoResult == [op |-> "none", args |-> <<>>, exc |-> "none", kind |-> "None", value |-> <<>>]

Result(o, a, r) ==
    [op |-> o, args |-> a, exc |-> r.exc, kind |-> r.kind, value |-> r.value]

\* faulty variant: the write goes to the default address
WritetoCallDefault(a, bytes, failed) ==
    [call |-> "writeto", addr |-> SGP30_DEFAULT_I2C_ADDR, data |-> bytes, ms |-> 0,
     nbytes |-> 0, raised |-> failed]

\* entries of the log bus
WritetoCall(a, bytes, failed) ==
    [call |-> "writeto", addr |-> a, data |-> bytes, ms |-> 0, nbytes |-> 0, raised |-> failed]

SleepCall(ms) ==
    [call |-> "sleep", addr |-> 0, data |-> <<>>, ms |-> ms, nbytes |-> 0, raised |-> FALSE]

ReadfromIntoCall(a, n, failed) ==
    [call |-> "readfrom_into", addr |-> a, data |-> <<>>, ms |-> 0, nbytes |-> n, raised |-> failed]

DriverInit ==
    /\ init_pc = "not called"
    /\ addr = 0
    /\ serial = <<>>
    /\ featureset = <<>>
    /\ op = [c \in Callers |-> "none"]
    /\ args = [c \in Callers |-> <<>>]
    /\ pc = [c \in Callers |-> "idle"]
    /\ command = [c \in Callers |-> <<>>]
    /\ delay = [c \in Callers |-> 0]
    /\ reply_size = [c \in Callers |-> 0]
    /\ crc_result = [c \in Callers |-> <<>>]
    /\ txret = [c \in Callers |-> Raised("none")]
    /\ ret = [c \in Callers |-> NoResult]
    /\ bus = [c \in Callers |-> <<>>]
    /\ lock = 0
    /\ last_writer = 0
    /\ read_after = [c \in Callers |-> 0]

CrcIdle == data = <<>> /\ crc_out = -1 /\ crc_prev = -1

CodecIdle ==
    word = 0 /\ triple = <<>> /\ flipped = -1 /\ decoded = Raised("pending")

(***************************************************************************)
(* The profiles of the SGP30 methods and _run_profile (lines 56-88).       *)
(* A profile is << name, command, signals, delay >>; delays are in         *)
(* milliseconds (0.01 s = 10, 0.05 s = 50).                                *)
(***************************************************************************)
\* faulty variant: a reply word is read after the command
InitIaqProfileMutant == << "initalise_indoor_air_quality", <<32, 3>>, 1, 10 >>

\* line 59
InitIaqProfile == << "initalise_indoor_air_quality", <<32, 3>>, 0, 10 >>

\* faulty variant: waits the 10 ms of the other commands
IaqMeasureProfileMutant == << "iaq_measure", <<32, 8>>, 2, 10 >>

\* line 64
IaqMeasureProfile == << "iaq_measure", <<32, 8>>, 2, 50 >>

\* line 70
IaqGetBaselineProfile == << "iaq_get_baseline", <<32, 21>>, 2, 10 >>

\* faulty variant: rejects a zero CO2 value with a non-zero TVOC value
InvalidBaselineMutant(co2_equivalent, total_volatile_organic_compounds) ==
    co2_equivalent = 0 /\ total_volatile_organic_compounds # 0

\* faulty variant: one zero is enough to reject the pair
InvalidBaselineEither(co2_equivalent, total_volatile_organic_compounds) ==
    co2_equivalent = 0 \/ total_volatile_organic_compounds = 0

\* the test of line 75
InvalidBaseline(co2_equivalent, total_volatile_organic_compounds) ==
    co2_equivalent = 0 /\ total_volatile_organic_compounds = 0

\* faulty variant: runs over the values in the order of the parameters
SetterValuesMutant(co2_equivalent, total_volatile_organic_compounds) ==
    << co2_equivalent, total_volatile_organic_compounds >>

\* the list the loop of line 78 runs over
SetterValues(co2_equivalent, total_volatile_organic_compounds) ==
    << total_volatile_organic_compounds, co2_equivalent >>

\* lines 77-81: buffer = []; for value in ...: buffer += arr
RECURSIVE SetterBuffer(_)
SetterBuffer(values) ==
    IF values = <<>> THEN <<>>
    ELSE EncodeWord(Head(values)) \o SetterBuffer(Tail(values))

\* line 82
IaqSetBaselineProfile(co2_equivalent, total_volatile_organic_compounds) ==
    << "iaq_set_baseline",
       <<32, 30>> \o SetterBuffer(SetterValues(co2_equivalent,
                                               total_volatile_organic_compounds)),
       0, 10 >>

\* lines 87-88: _, command, signals, delay = profile; the arguments of
\* _i2c_read_words_from_cmd(command, delay, signals)
RunProfile(profile) ==
    [command |-> profile[2], delay |-> profile[4], reply_size |-> profile[3]]

\* faulty variant: accepts every feature set from 0x0020 up
FeaturesetMismatchMutant(fs) == fs[1] < SGP30_FEATURESET

\* the test of line 32
FeaturesetMismatch(fs) == fs[1] # SGP30_FEATURESET

\* bytes(command) of line 92 raises ValueError unless every item is a byte
IsBytes(cmd) == \A i \in 1..Len(cmd) : cmd[i] \in 0..255

\* faulty variant: tvoc and co2_equivalent take each other's item
OutcomeSwapped(o, r) ==
    IF r.exc # "none" THEN r
    ELSE CASE o = "tvoc" -> Returned("int", << r.value[1] >>)
           [] o = "co2_equivalent" -> Returned("int", << r.value[2] >>)
           [] o \in {"iaq_measure", "iaq_baseline"} -> r
           [] OTHER -> Returned("None", <<>>)

\* what a method makes of the value _run_profile handed back
Outcome(o, r) ==
    IF r.exc # "none" THEN r
    ELSE CASE o = "tvoc" -> Returned("int", << r.value[2] >>)
           [] o = "co2_equivalent" -> Returned("int", << r.value[1] >>)
           [] o \in {"iaq_measure", "iaq_baseline"} -> r
           [] OTHER -> Returned("None", <<>>)

(***************************************************************************)
(* Steps shared by the actions.                                            *)
(***************************************************************************)
\* caller c enters _i2c_read_words_from_cmd with the arguments t
EnterTransaction(c, t) ==
    /\ pc' = [pc EXCEPT ![c] = "writeto"]
    /\ command' = [command EXCEPT ![c] = t.command]
    /\ delay' = [delay EXCEPT ![c] = t.delay]
    /\ reply_size' = [reply_size EXCEPT ![c] = t.reply_size]
    /\ crc_result' = [crc_result EXCEPT ![c] = <<>>]
    /\ txret' = [txret EXCEPT ![c] = Raised("none")]

\* caller c calls method or property o of the constructed object with
\* arguments a, and the call reaches _i2c_read_words_from_cmd
BeginCall(c, o, a, t) ==
    /\ op' = [op EXCEPT ![c] = o]
    /\ args' = [args EXCEPT ![c] = a]
    /\ ret' = [ret EXCEPT ![c] = NoResult]
    /\ bus' = [bus EXCEPT ![c] = <<>>]
    /\ EnterTransaction(c, t)
    /\ UNCHANGED << callers, init_pc, addr, serial, featureset >>

\* the call o(a) of caller c raises exc before it reaches the bus
FailCall(c, o, a, exc) ==
    /\ ret' = [ret EXCEPT ![c] = Result(o, a, Raised(exc))]
    /\ args' = [args EXCEPT ![c] = a]
    /\ bus' = [bus EXCEPT ![c] = <<>>]
    /\ crc_result' = [crc_result EXCEPT ![c] = <<>>]
    /\ UNCHANGED << callers, init_pc, addr, serial, featureset, op, pc, command,
                    delay, reply_size, txret >>

\* the call of caller c ends, returning or raising r
EndCall(c, r) ==
    /\ op' = [op EXCEPT ![c] = "none"]
    /\ pc' = [pc EXCEPT ![c] = "idle"]
    /\ ret' = [ret EXCEPT ![c] = Result(op[c], args[c], r)]
    /\ UNCHANGED << callers, addr, args, command, delay, reply_size, crc_result,
                    txret, bus >>

\* a caller may use the object once the constructor has handed it out
CanCall(c) == c \in callers /\ init_pc = "returned" /\ op[c] = "none"

(***************************************************************************)
(* SGP30.__init__ (lines 23-34).                                           *)
(***************************************************************************)
\* lines 25-29: the fields are set and the serial number is asked for
Construct(c, address) ==
    /\ c \in callers
    /\ init_pc = "not called"
    /\ op[c] = "none"
    /\ init_pc' = "line 29"
    /\ addr' = address
    /\ op' = [op EXCEPT ![c] = "__init__"]
    /\ args' = [args EXCEPT ![c] = << address >>]
    /\ ret' = [ret EXCEPT ![c] = NoResult]
    /\ bus' = [bus EXCEPT ![c] = <<>>]
    /\ EnterTransaction(c, [command |-> <<54, 130>>, delay |-> 10, reply_size |-> 3])
    /\ UNCHANGED << callers, serial, featureset >>

\* faulty variant: the exception is swallowed and the object handed out
InitRaiseSwallowed(c, r) ==
    /\ init_pc' = "returned"
    /\ EndCall(c, Returned("None", <<>>))

\* an exception leaves __init__: the caller gets no object
InitRaise(c, r) ==
    /\ init_pc' = "raised"
    /\ EndCall(c, r)

\* line 29 assigns self.serial, line 31 asks for the feature set
InitSerialReturn(c) ==
    /\ op[c] = "__init__" /\ pc[c] = "return" /\ init_pc = "line 29"
    /\ IF txret[c].exc # "none"
       THEN InitRaise(c, txret[c]) /\ UNCHANGED << serial, featureset >>
       ELSE /\ serial' = txret[c].value
            /\ init_pc' = "line 31"
            /\ EnterTransaction(c, [command |-> <<32, 47>>, delay |-> 10,
                                    reply_size |-> 1])
            /\ UNCHANGED << callers, addr, featureset, op, args, ret, bus >>

\* lines 31-34: the feature set is compared, then the IAQ algorithm is started
InitFeaturesetReturn(c) ==
    /\ op[c] = "__init__" /\ pc[c] = "return" /\ init_pc = "line 31"
    /\ IF txret[c].exc # "none"
       THEN InitRaise(c, txret[c]) /\ UNCHANGED << serial, featureset >>
       ELSE /\ featureset' = txret[c].value
            /\ IF FeaturesetMismatch(txret[c].value)
               THEN InitRaise(c, Raised("SGP30 Not detected")) /\ UNCHANGED serial
               ELSE /\ init_pc' = "line 34"
                    /\ EnterTransaction(c, RunProfile(InitIaqProfile))
                    /\ UNCHANGED << callers, addr, serial, op, args, ret, bus >>

\* line 34 returns, and with it __init__
InitIaqReturn(c) ==
    /\ op[c] = "__init__" /\ pc[c] = "return" /\ init_pc = "line 34"
    /\ IF txret[c].exc # "none"
       THEN InitRaise(c, txret[c])
       ELSE init_pc' = "returned" /\ EndCall(c, Returned("None", <<>>))
    /\ UNCHANGED << serial, featureset >>

(***************************************************************************)
(* The methods and properties (lines 36-82).                               *)
(***************************************************************************)
\* lines 56-59
CallInitaliseIndoorAirQuality(c) ==
    /\ CanCall(c)
    /\ BeginCall(c, "initalise_indoor_air_quality", <<>>, RunProfile(InitIaqProfile))

\* lines 61-64
CallIaqMeasure(c) ==
    /\ CanCall(c)
    /\ BeginCall(c, "iaq_measure", <<>>, RunProfile(IaqMeasureProfile))

\* lines 36-39: self.iaq_measure()[1]
CallTvoc(c) ==
    /\ CanCall(c)
    /\ BeginCall(c, "tvoc", <<>>, RunProfile(IaqMeasureProfile))

\* lines 46-49: self.iaq_measure()[0]
CallCo2Equivalent(c) ==
    /\ CanCall(c)
    /\ BeginCall(c, "co2_equivalent", <<>>, RunProfile(IaqMeasureProfile))

\* lines 66-70: the getter of the property iaq_baseline
CallIaqBaseline(c) ==
    /\ CanCall(c)
    /\ BeginCall(c, "iaq_baseline", <<>>, RunProfile(IaqGetBaselineProfile))

\* lines 41-44: self.get_iaq_baseline()[1]; the class defines no attribute
\* get_iaq_baseline, so the attribute lookup raises
CallBaselineTvoc(c) ==
    /\ CanCall(c)
    /\ FailCall(c, "baseline_tvoc", <<>>, "AttributeError")

\* lines 51-54: self.get_iaq_baseline()[0]
CallBaselineCo2Equivilant(c) ==
    /\ CanCall(c)
    /\ FailCall(c, "baseline_co2_equivilant", <<>>, "AttributeError")

\* lines 72-82: the setter function of iaq_baseline, called with its two
\* arguments
CallSetIaqBaseline(c, co2_equivalent, total_volatile_organic_compounds) ==
    /\ CanCall(c)
    /\ LET a == << co2_equivalent, total_volatile_organic_compounds >>
       IN  IF InvalidBaseline(co2_equivalent, total_volatile_organic_compounds)
           THEN FailCall(c, "iaq_baseline.setter", a, "Invalid baseline")
           ELSE BeginCall(c, "iaq_baseline.setter", a,
                          RunProfile(IaqSetBaselineProfile(
                              co2_equivalent, total_volatile_organic_compounds)))

\* the assignment sgp.iaq_baseline = value: Python hands the setter function
\* one value for its two parameters
AssignIaqBaseline(c, value) ==
    /\ CanCall(c)
    /\ FailCall(c, "iaq_baseline =", << value >>, "TypeError")

\* the method returns what _run_profile handed back, or an item of it
MethodReturn(c) ==
    /\ op[c] \notin {"none", "__init__"} /\ pc[c] = "return"
    /\ EndCall(c, Outcome(op[c], txret[c]))
    /\ UNCHANGED << init_pc, serial, featureset >>

(***************************************************************************)
(* _i2c_read_words_from_cmd (lines 90-105), one action for each call it    *)
(* makes to the bus object or to time.sleep.  The bus object raises        *)
(* OSError when a transfer fails.                                          *)
(***************************************************************************)
Step(c, next, r, calls) ==
    /\ pc' = [pc EXCEPT ![c] = next]
    /\ txret' = [txret EXCEPT ![c] = r]
    /\ bus' = [bus EXCEPT ![c] = @ \o calls]
    /\ UNCHANGED << callers, init_pc, addr, serial, featureset, op, args, command,
                    delay, reply_size, ret >>

\* faulty variant: the write waits while another caller's command is
\* between its write and its read
I2cWritetoExclusive(c) ==
    /\ c \in callers /\ pc[c] = "writeto"
    /\ \A d \in callers \ {c} : pc[d] \notin {"sleep", "readfrom_into"}
    /\ IF IsBytes(command[c])
       THEN Step(c, "sleep", txret[c], << WritetoCall(addr, command[c], FALSE) >>)
       ELSE Step(c, "return", Raised("ValueError"), <<>>)
    /\ UNCHANGED crc_result

\* line 92: self._i2c.writeto(self._addr, bytes(command))
I2cWriteto(c) ==
    /\ c \in callers /\ pc[c] = "writeto"
    /\ IF IsBytes(command[c])
       THEN Step(c, "sleep", txret[c], << WritetoCall(addr, command[c], FALSE) >>)
       ELSE Step(c, "return", Raised("ValueError"), <<>>)
    /\ UNCHANGED crc_result

\* faulty variant: the failure of the write is ignored
I2cWritetoIgnored(c) ==
    /\ c \in callers /\ pc[c] = "writeto" /\ IsBytes(command[c])
    /\ Step(c, "sleep", txret[c], << WritetoCall(addr, command[c], TRUE) >>)
    /\ UNCHANGED crc_result

\* line 92, the transfer fails
I2cWritetoRaises(c) ==
    /\ c \in callers /\ pc[c] = "writeto" /\ IsBytes(command[c])
    /\ Step(c, "return", Raised("OSError"), << WritetoCall(addr, command[c], TRUE) >>)
    /\ UNCHANGED crc_result

\* faulty variant: reads at once when a reply is due
SleepSkipped(c) ==
    /\ c \in callers /\ pc[c] = "sleep"
    /\ IF reply_size[c] = 0
       THEN Step(c, "return", Returned("None", <<>>), << SleepCall(delay[c]) >>)
       ELSE Step(c, "readfrom_into", txret[c], <<>>)
    /\ UNCHANGED crc_result

\* lines 93-95: time.sleep(delay); if not reply_size: return None
Sleep(c) ==
    /\ c \in callers /\ pc[c] = "sleep"
    /\ IF reply_size[c] = 0
       THEN Step(c, "return", Returned("None", <<>>), << SleepCall(delay[c]) >>)
       ELSE Step(c, "readfrom_into", txret[c], << SleepCall(delay[c]) >>)
    /\ UNCHANGED crc_result

\* the size of the buffer of line 96
BufferSize(n) == n * (SGP30_WORD_LEN + 1)

\* faulty variant: a reply that fails its checksum is read again
I2cReadfromIntoRetried(c) ==
    /\ c \in callers /\ pc[c] = "readfrom_into"
    /\ \E reply \in ReplyChoices(reply_size[c]) :
          /\ crc_result' = [crc_result EXCEPT ![c] = reply]
          /\ IF DecodeWords(reply, reply_size[c]).exc = "none"
             THEN Step(c, "return", DecodeWords(reply, reply_size[c]),
                       << ReadfromIntoCall(addr, BufferSize(reply_size[c]), FALSE) >>)
             ELSE Step(c, "readfrom_into", txret[c],
                       << ReadfromIntoCall(addr, BufferSize(reply_size[c]), FALSE) >>)

\* lines 96-105: the buffer is filled by the bus and decoded
I2cReadfromInto(c) ==
    /\ c \in callers /\ pc[c] = "readfrom_into"
    /\ \E reply \in ReplyChoices(reply_size[c]) :
          /\ crc_result' = [crc_result EXCEPT ![c] = reply]
          /\ Step(c, "return", DecodeWords(reply, reply_size[c]),
                  << ReadfromIntoCall(addr, BufferSize(reply_size[c]), FALSE) >>)

\* line 97, the transfer fails
I2cReadfromIntoRaises(c) ==
    /\ c \in callers /\ pc[c] = "readfrom_into"
    /\ Step(c, "return", Raised("OSError"),
            << ReadfromIntoCall(addr, BufferSize(reply_size[c]), TRUE) >>)
    /\ UNCHANGED crc_result

(***************************************************************************)
(* The application around the driver.  The driver itself takes no lock     *)
(* (no line of sgp30.py does); when serialized, every caller takes the     *)
(* application's mutex before a call and gives it back when the call ends. *)
(* last_writer and read_after record the order of the bus calls of         *)
(* different callers.                                                      *)
(***************************************************************************)
\* faulty variant: a call begins without waiting for the mutex
FreeUnchecked == TRUE

\* the mutex is free, or the application does not use one
Free == serialized => lock = 0

\* the mutex is held by c while its call lasts
Held(c) == lock' = (IF serialized /\ op'[c] # "none" THEN c ELSE 0)

\* c begins a call
Enter(c) ==
    /\ Free
    /\ Held(c)
    /\ read_after' = [read_after EXCEPT ![c] = 0]
    /\ UNCHANGED << serialized, last_writer >>

\* c goes on in its call, or ends it
Go(c) ==
    /\ Held(c)
    /\ UNCHANGED << serialized, last_writer, read_after >>

\* c's writeto reached the bus, unless bytes(command) raised before it
Wrote(c) ==
    /\ Held(c)
    /\ last_writer' = (IF IsBytes(command[c]) THEN c ELSE last_writer)
    /\ UNCHANGED << serialized, read_after >>

\* c's readfrom_into ran
Read(c) ==
    /\ Held(c)
    /\ read_after' = [read_after EXCEPT ![c] = last_writer]
    /\ UNCHANGED << serialized, last_writer >>

(***************************************************************************)
(* The driver: one caller constructs the object and uses it.               *)
(***************************************************************************)
Init ==
    /\ callers = {1}
    /\ serialized = FALSE
    /\ DriverInit
    /\ CrcIdle
    /\ CodecIdle

Next ==
    \/ \E c \in Callers, a \in AddressChoices :
          Construct(c, a) /\ Enter(c) /\ UNCHANGED << crcVars, codecVars >>
    \/ \E c \in Callers : InitSerialReturn(c) /\ Go(c) /\ UNCHANGED << crcVars, codecVars >>
    \/ \E c \in Callers : InitFeaturesetReturn(c) /\ Go(c) /\ UNCHANGED << crcVars, codecVars >>
    \/ \E c \in Callers : InitIaqReturn(c) /\ Go(c) /\ UNCHANGED << crcVars, codecVars >>
    \/ \E c \in Callers :
          CallInitaliseIndoorAirQuality(c) /\ Enter(c) /\ UNCHANGED << crcVars, codecVars >>
    \/ \E c \in Callers : CallIaqMeasure(c) /\ Enter(c) /\ UNCHANGED << crcVars, codecVars >>
    \/ \E c \in Callers : CallTvoc(c) /\ Enter(c) /\ UNCHANGED << crcVars, codecVars >>
    \/ \E c \in Callers : CallCo2Equivalent(c) /\ Enter(c) /\ UNCHANGED << crcVars, codecVars >>
    \/ \E c \in Callers : CallIaqBaseline(c) /\ Enter(c) /\ UNCHANGED << crcVars, codecVars >>
    \/ \E c \in Callers : CallBaselineTvoc(c) /\ Enter(c) /\ UNCHANGED << crcVars, codecVars >>
    \/ \E c \in Callers :
          CallBaselineCo2Equivilant(c) /\ Enter(c) /\ UNCHANGED << crcVars, codecVars >>
    \/ \E c \in Callers, co2 \in BaselineChoices, tvoc \in BaselineChoices :
          CallSetIaqBaseline(c, co2, tvoc) /\ Enter(c) /\ UNCHANGED << crcVars, codecVars >>
    \/ \E c \in Callers, v \in BaselineChoices :
          AssignIaqBaseline(c, v) /\ Enter(c) /\ UNCHANGED << crcVars, codecVars >>
    \/ \E c \in Callers : MethodReturn(c) /\ Go(c) /\ UNCHANGED << crcVars, codecVars >>
    \/ \E c \in Callers : I2cWriteto(c) /\ Wrote(c) /\ UNCHANGED << crcVars, codecVars >>
    \/ \E c \in Callers : I2cWritetoRaises(c) /\ Go(c) /\ UNCHANGED << crcVars, codecVars >>
    \/ \E c \in Callers : Sleep(c) /\ Go(c) /\ UNCHANGED << crcVars, codecVars >>
    \/ \E c \in Callers : I2cReadfromInto(c) /\ Read(c) /\ UNCHANGED << crcVars, codecVars >>
    \/ \E c \in Callers : I2cReadfromIntoRaises(c) /\ Go(c) /\ UNCHANGED << crcVars, codecVars >>

Spec == Init /\ [][Next]_vars

(***************************************************************************)
(* Two callers use the object without any mutex.                           *)
(***************************************************************************)
ConcInit ==
    /\ callers = {1, 2}
    /\ serialized = FALSE
    /\ DriverInit
    /\ CrcIdle
    /\ CodecIdle

SpecConc == ConcInit /\ [][Next]_vars

(***************************************************************************)
(* Two callers use the object, each call under the application's mutex.    *)
(***************************************************************************)
LockedInit ==
    /\ callers = {1, 2}
    /\ serialized = TRUE
    /\ DriverInit
    /\ CrcIdle
    /\ CodecIdle

SpecLocked == LockedInit /\ [][Next]_vars

(***************************************************************************)
(* generate_crc alone: it is called on a byte sequence, and called again.  *)
(***************************************************************************)
\* 0x00, 0x01, 0x20, 0x31, 0x7F, 0x80, 0xBE, 0xEF, 0xFF
ByteSample == {0, 1, 32, 49, 127, 128, 190, 239, 255}

\* every sequence of at most SGP30_WORD_LEN bytes, the length of every
\* sequence the driver hands to generate_crc; longer ones over ByteSample
CrcInputs ==
    UNION {[1..n -> IF n <= SGP30_WORD_LEN THEN 0..255 ELSE ByteSample] :
              n \in 0..MaxDataLen}

GenerateCrc ==
    /\ crc_out = -1
    /\ crc_out' = generate_crc(data)
    /\ UNCHANGED << data, crc_prev >>

GenerateCrcAgain ==
    /\ crc_out # -1 /\ crc_prev = -1
    /\ crc_prev' = crc_out
    /\ crc_out' = generate_crc(data)
    /\ UNCHANGED data

CrcInit ==
    /\ callers = {}
    /\ serialized = FALSE
    /\ DriverInit
    /\ CodecIdle
    /\ data \in CrcInputs
    /\ crc_out = -1
    /\ crc_prev = -1

CrcNext ==
    \/ GenerateCrc /\ UNCHANGED << driverVars, codecVars, concVars >>
    \/ GenerateCrcAgain /\ UNCHANGED << driverVars, codecVars, concVars >>

SpecCrc == CrcInit /\ [][CrcNext]_vars

(***************************************************************************)
(* The word codec alone: a word is encoded as the setter encodes it, one   *)
(* bit of the triple may be flipped in transit, and the triple is decoded  *)
(* as a reply of one word is decoded.                                      *)
(***************************************************************************)
\* the high bytes of the words encoded; the low byte is any byte
CodecHighBytes == {0, 1, 2, 4, 8, 16, 18, 32, 64, 85, 127, 128, 170, 190, 239, 255}

CodecWords == {hi * 256 + lo : hi \in CodecHighBytes, lo \in 0..255}

\* the triple t with bit k flipped: bits 0-7 are in the first byte
FlipTripleBit(t, k) == [t EXCEPT ![(k \div 8) + 1] = ValueOf(Xor(BitsOf(@), {k % 8}))]

CodecEncode ==
    /\ triple = <<>>
    /\ triple' = EncodeWord(word)
    /\ UNCHANGED << word, flipped, decoded >>

CodecFlip(k) ==
    /\ triple # <<>> /\ flipped = -1 /\ decoded.exc = "pending"
    /\ triple' = FlipTripleBit(triple, k)
    /\ flipped' = k
    /\ UNCHANGED << word, decoded >>

CodecDecode ==
    /\ triple # <<>> /\ decoded.exc = "pending"
    /\ decoded' = DecodeWords(triple, 1)
    /\ UNCHANGED << word, triple, flipped >>

CodecInit ==
    /\ callers = {}
    /\ serialized = FALSE
    /\ DriverInit
    /\ CrcIdle
    /\ word \in CodecWords
    /\ triple = <<>>
    /\ flipped = -1
    /\ decoded = Raised("pending")

CodecNext ==
    \/ CodecEncode /\ UNCHANGED << driverVars, crcVars, concVars >>
    \/ \E k \in 0..23 : CodecFlip(k) /\ UNCHANGED << driverVars, crcVars, concVars >>
    \/ CodecDecode /\ UNCHANGED << driverVars, crcVars, concVars >>

SpecCodec == CodecInit /\ [][CodecNext]_vars

(***************************************************************************)
(* Properties.                                                             *)
(***************************************************************************)
\* the calls of a log, whether they raised or not
CallsMade(log) == [i \in 1..Len(log) |-> [log[i] EXCEPT !.raised = FALSE]]

\* no call of the log but its last raised
OnlyLastRaised(log) == \A i \in 1..(Len(log) - 1) : ~log[i].raised

IsPrefix(s, t) == Len(s) <= Len(t) /\ s = SubSeq(t, 1, Len(s))

\* caller c has written cmd to the bus in its current or last call
Written(c, cmd) ==
    \E i \in 1..Len(bus[c]) : bus[c][i].call = "writeto" /\ bus[c][i].data = cmd

\* word i (0-based) of the buffer buf carries a checksum byte that disagrees
\* with the checksum of its two data bytes
BadWord(buf, i) == generate_crc(<< buf[3 * i + 1], buf[3 * i + 2] >>) # buf[3 * i + 3]

\* C1: when __init__ has read a checksum-valid feature-set word other than
\* 0x0020, it has raised 'SGP30 Not detected': no object is handed out, the
\* command [0x20, 0x03] was not written, every caller is idle and no step
\* of the driver is possible any more.
C1_DeviceNotDetected ==
    (featureset # <<>> /\ featureset[1] # 32) =>
        /\ init_pc = "raised"
        /\ \A c \in callers :
              /\ op[c] = "none" /\ pc[c] = "idle"
              /\ ~Written(c, <<32, 3>>)
        /\ \E c \in callers :
              ret[c].op = "__init__" /\ ret[c].exc = "SGP30 Not detected"
        /\ ~ENABLED Next

C1_Witness ==
    /\ init_pc = "raised"
    /\ featureset = << 48879 >>
    /\ ret[1].exc = "SGP30 Not detected"

\* C2: when the buffer read by a transaction holds a word whose checksum
\* byte disagrees, the transaction raises 'CRC Error' and returns no words,
\* and so does the call that ran it, whatever the words before it.
C2_AllOrNothing ==
    \A c \in callers :
        (/\ crc_result[c] # <<>>
         /\ \E i \in 0..(reply_size[c] - 1) : BadWord(crc_result[c], i)) =>
            /\ pc[c] \in {"return", "idle"}
            /\ pc[c] = "return" => txret[c] = Raised("CRC Error")
            /\ pc[c] = "idle" =>
                  /\ ret[c].exc = "CRC Error"
                  /\ ret[c].kind = "None"
                  /\ ret[c].value = <<>>

C2_Witness ==
    /\ ret[1].op = "iaq_measure"
    /\ ret[1].exc = "CRC Error"
    /\ ret[1].value = <<>>
    /\ Len(crc_result[1]) = 6
    /\ ~BadWord(crc_result[1], 0)
    /\ BadWord(crc_result[1], 1)

\* C3: the setter called with (0, 0) raises 'Invalid baseline' and makes no
\* call to the bus or to sleep: it never enters a transaction.
C3_InvalidBaseline ==
    \A c \in callers :
        /\ (op[c] = "iaq_baseline.setter") => args[c] # <<0, 0>>
        /\ (ret[c].op = "iaq_baseline.setter" /\ ret[c].args = <<0, 0>>) =>
              /\ ret[c].exc = "Invalid baseline"
              /\ bus[c] = <<>>

C3_Witness ==
    /\ ret[1].op = "iaq_baseline.setter"
    /\ ret[1].args = <<0, 0>>
    /\ ret[1].exc = "Invalid baseline"

\* the calls of a measure-IAQ transaction
MeasureCalls ==
    << WritetoCall(addr, <<32, 8>>, FALSE), SleepCall(50), ReadfromIntoCall(addr, 6, FALSE) >>

\* C4: iaq_measure writes [0x20, 0x08], sleeps 50 ms and reads 6 bytes, in
\* that order and nothing else; with both checksums valid it returns the
\* list of the two words, bytes 0-1 big-endian and then bytes 3-4.
C4_MeasureIaq ==
    \A c \in callers :
        /\ (op[c] = "iaq_measure" \/ ret[c].op = "iaq_measure") =>
              /\ IsPrefix(CallsMade(bus[c]), MeasureCalls)
              /\ OnlyLastRaised(bus[c])
        /\ (ret[c].op = "iaq_measure" /\ ret[c].exc = "none") =>
              /\ bus[c] = MeasureCalls
              /\ Len(crc_result[c]) = 6
              /\ ret[c].kind = "list"
              /\ ret[c].value = << crc_result[c][1] * 256 + crc_result[c][2],
                                   crc_result[c][4] * 256 + crc_result[c][5] >>
        /\ (/\ ret[c].op = "iaq_measure"
            /\ Len(crc_result[c]) = 6
            /\ ~BadWord(crc_result[c], 0)
            /\ ~BadWord(crc_result[c], 1)) => ret[c].exc = "none"

C4_Witness ==
    /\ ret[1].op = "iaq_measure"
    /\ ret[1].exc = "none"
    /\ ret[1].value = << 32, 48879 >>
    /\ Len(bus[1]) = 3

\* the bytes the claim has the setter write for the pair (co2, tvoc)
SetBaselineBytes(co2, tvoc) ==
    << 32, 30,
       tvoc \div 256, tvoc % 256, generate_crc(<< tvoc \div 256, tvoc % 256 >>),
       co2 \div 256, co2 % 256, generate_crc(<< co2 \div 256, co2 % 256 >>) >>

SetBaselineCalls(co2, tvoc) ==
    << WritetoCall(addr, SetBaselineBytes(co2, tvoc), FALSE), SleepCall(10) >>

\* a pair of 16-bit values other than (0, 0)
LegalPair(a) ==
    /\ Len(a) = 2
    /\ a[1] \in 0..65535 /\ a[2] \in 0..65535
    /\ a # <<0, 0>>

\* C5: the setter called with a legal pair (co2, tvoc) writes the 8 bytes
\* [0x20, 0x1E, TVOC word and checksum, CO2 word and checksum], then sleeps
\* 10 ms, and reads nothing.
C5_SetBaselineOrder ==
    \A c \in callers :
        /\ (op[c] = "iaq_baseline.setter" /\ LegalPair(args[c])) =>
              /\ IsPrefix(CallsMade(bus[c]), SetBaselineCalls(args[c][1], args[c][2]))
              /\ OnlyLastRaised(bus[c])
        /\ (ret[c].op = "iaq_baseline.setter" /\ LegalPair(ret[c].args)) =>
              /\ IsPrefix(CallsMade(bus[c]), SetBaselineCalls(ret[c].args[1], ret[c].args[2]))
              /\ ret[c].exc = "none" =>
                    bus[c] = SetBaselineCalls(ret[c].args[1], ret[c].args[2])

C5_Witness ==
    /\ ret[1].op = "iaq_baseline.setter"
    /\ ret[1].args = << 4660, 48879 >>
    /\ ret[1].exc = "none"
    /\ Len(bus[1]) = 2

(***************************************************************************)
(* The CRC-8 of the protocol as it is published: polynomial 0x31, initial  *)
(* value 0xFF, no reflection, no final XOR, an 8-bit register.             *)
(***************************************************************************)
RECURSIVE XorInt(_, _)
XorInt(a, b) ==
    IF a = 0 THEN b
    ELSE IF b = 0 THEN a
    ELSE ((a + b) % 2) + 2 * XorInt(a \div 2, b \div 2)

ReferenceShift(crc) ==
    IF crc >= 128 THEN XorInt((crc * 2) % 256, 49) ELSE (crc * 2) % 256

RECURSIVE ReferenceShiftN(_, _)
ReferenceShiftN(crc, n) ==
    IF n = 0 THEN crc ELSE ReferenceShiftN(ReferenceShift(crc), n - 1)

RECURSIVE ReferenceCrc8From(_, _)
ReferenceCrc8From(crc, bytes) ==
    IF bytes = <<>> THEN crc
    ELSE ReferenceCrc8From(ReferenceShiftN(XorInt(crc, Head(bytes)), 8), Tail(bytes))

ReferenceCrc8(bytes) == ReferenceCrc8From(255, bytes)

\* C6: generate_crc returns the value of the reference CRC-8, which masks
\* its register to 8 bits after every shift, and a value in 0..255.
C6_CrcMatchesReference ==
    crc_out # -1 => (crc_out = ReferenceCrc8(data) /\ crc_out \in 0..255)

\* generate_crc has returned for an input on which its accumulator grew
\* past 8 bits
C6_Witness ==
    /\ crc_out # -1
    /\ Len(data) = 2
    /\ \E i \in CrcAccumulator(data) : i >= 8

C8_RoundTrip ==
    /\ (triple # <<>> /\ flipped = -1) =>
          /\ triple[1] = word \div 256
          /\ triple[2] = word % 256
          /\ triple[3] = generate_crc(<< triple[1], triple[2] >>)
    /\ (decoded.exc # "pending" /\ flipped = -1) =>
          decoded = Returned("list", << word >>)

C8_Witness ==
    /\ word = 48879
    /\ flipped = -1
    /\ decoded = Returned("list", << 48879 >>)

\* C9: after any one of the 24 bits of an encoded triple is flipped, the
\* checksum of its two data bytes differs from its checksum byte, and the
\* decoder raises 'CRC Error' and returns no word.
C9_Tampering ==
    flipped # -1 =>
        /\ generate_crc(<< triple[1], triple[2] >>) # triple[3]
        /\ decoded.exc # "pending" => decoded = Raised("CRC Error")

C9_Witness ==
    /\ word = 48879
    /\ flipped = 23
    /\ decoded = Raised("CRC Error")

\* the calls of a get-IAQ-baseline transaction
GetBaselineCalls ==
    << WritetoCall(addr, <<32, 21>>, FALSE), SleepCall(10), ReadfromIntoCall(addr, 6, FALSE) >>

\* C10: a read of baseline_tvoc or of baseline_co2_equivilant runs one
\* get-IAQ-baseline transaction ([0x20, 0x15], 10 ms, 2 words) and returns
\* its second word, respectively its first.
C10_BaselineAccessors ==
    \A c \in callers :
        (ret[c].op \in {"baseline_tvoc", "baseline_co2_equivilant"}) =>
            /\ IsPrefix(CallsMade(bus[c]), GetBaselineCalls)
            /\ bus[c] # <<>>
            /\ ret[c].exc \in {"none", "CRC Error", "OSError"}
            /\ ret[c].exc = "none" =>
                  /\ bus[c] = GetBaselineCalls
                  /\ ret[c].kind = "int"
                  /\ ret[c].value =
                        IF ret[c].op = "baseline_tvoc"
                        THEN << crc_result[c][4] * 256 + crc_result[c][5] >>
                        ELSE << crc_result[c][1] * 256 + crc_result[c][2] >>

\* C11: a read of tvoc or of co2_equivalent runs one measure-IAQ
\* transaction and nothing else; it returns the second word of the reply,
\* respectively the first, and when a word of the reply fails its checksum
\* it raises 'CRC Error' and returns nothing.
C11_MeasureAccessors ==
    \A c \in callers :
        /\ (op[c] \in {"tvoc", "co2_equivalent"} \/ ret[c].op \in {"tvoc", "co2_equivalent"}) =>
              /\ IsPrefix(CallsMade(bus[c]), MeasureCalls)
              /\ OnlyLastRaised(bus[c])
        /\ (ret[c].op \in {"tvoc", "co2_equivalent"} /\ ret[c].exc = "none") =>
              Len(crc_result[c]) = 6
        /\ (ret[c].op \in {"tvoc", "co2_equivalent"} /\ Len(crc_result[c]) = 6) =>
              /\ bus[c] = MeasureCalls
              /\ IF BadWord(crc_result[c], 0) \/ BadWord(crc_result[c], 1)
                 THEN /\ ret[c].exc = "CRC Error"
                      /\ ret[c].kind = "None"
                      /\ ret[c].value = <<>>
                 ELSE /\ ret[c].exc = "none"
                      /\ ret[c].kind = "int"
                      /\ ret[c].value =
                            IF ret[c].op = "tvoc"
                            THEN << crc_result[c][4] * 256 + crc_result[c][5] >>
                            ELSE << crc_result[c][1] * 256 + crc_result[c][2] >>

C11_Witness ==
    /\ ret[1].op = "tvoc"
    /\ ret[1].exc = "none"
    /\ ret[1].value = << 48879 >>
    /\ crc_result[1][1] * 256 + crc_result[1][2] = 32

\* the last call caller c made
LastCall(c) == bus[c][Len(bus[c])]

\* C12: every transaction writes the command, then sleeps, then reads, in
\* that order and with nothing between: a sleep directly follows a write
\* that went through, a read directly follows a sleep, and a write is
\* followed by nothing but its sleep.  A transaction of zero reply words
\* ends after the sleep without a read and hands back no result; one of
\* n >= 1 words ends with the one read of 3n bytes and hands back n words.
C12_TransactionOrder ==
    \A c \in callers :
        /\ \A i \in 1..Len(bus[c]) :
              /\ bus[c][i].call = "sleep" =>
                    /\ i > 1
                    /\ bus[c][i - 1].call = "writeto"
                    /\ ~bus[c][i - 1].raised
              /\ bus[c][i].call = "readfrom_into" =>
                    /\ i > 2
                    /\ bus[c][i - 1].call = "sleep"
                    /\ bus[c][i - 2].call = "writeto"
              /\ (bus[c][i].call = "writeto" /\ i < Len(bus[c])) =>
                    bus[c][i + 1].call = "sleep"
        /\ pc[c] = "writeto" =>
              \/ bus[c] = <<>>
              \/ LastCall(c).call \in {"sleep", "readfrom_into"}
        /\ pc[c] = "sleep" =>
              LastCall(c) = WritetoCall(addr, command[c], FALSE)
        /\ pc[c] = "readfrom_into" =>
              /\ reply_size[c] >= 1
              /\ LastCall(c) = SleepCall(delay[c])
        /\ (pc[c] = "return" /\ txret[c].exc = "none") =>
              IF reply_size[c] = 0
              THEN /\ LastCall(c) = SleepCall(delay[c])
                   /\ txret[c] = Returned("None", <<>>)
                   /\ crc_result[c] = <<>>
              ELSE /\ LastCall(c) = ReadfromIntoCall(addr, 3 * reply_size[c], FALSE)
                   /\ Len(crc_result[c]) = 3 * reply_size[c]
                   /\ txret[c].kind = "list"
                   /\ Len(txret[c].value) = reply_size[c]

C12_Witness ==
    /\ pc[1] = "return"
    /\ op[1] = "iaq_measure"
    /\ txret[1].exc = "none"
    /\ bus[1] = MeasureCalls

\* a transaction of zero reply words has ended
C12_WitnessNoReply ==
    /\ pc[1] = "return"
    /\ op[1] = "initalise_indoor_air_quality"
    /\ txret[1] = Returned("None", <<>>)
    /\ Len(bus[1]) = 2

\* the calls of a successful construction
ConstructionCalls ==
    << WritetoCall(addr, <<54, 130>>, FALSE), SleepCall(10), ReadfromIntoCall(addr, 9, FALSE),
       WritetoCall(addr, <<32, 47>>, FALSE), SleepCall(10), ReadfromIntoCall(addr, 3, FALSE),
       WritetoCall(addr, <<32, 3>>, FALSE), SleepCall(10) >>

\* the big-endian word i (0-based) of the buffer buf
WordAt(buf, i) == buf[3 * i + 1] * 256 + buf[3 * i + 2]

C13_Calls ==
    \A c \in callers :
        (op[c] = "__init__" \/ ret[c].op = "__init__") =>
            /\ IsPrefix(CallsMade(bus[c]), ConstructionCalls)
            /\ OnlyLastRaised(bus[c])
            /\ Written(c, <<32, 47>>) => Len(serial) = 3
            /\ Written(c, <<32, 3>>) => featureset = << 32 >>
            /\ (ret[c].op = "__init__" /\ ret[c].exc = "none") =>
                  /\ bus[c] = ConstructionCalls
                  /\ init_pc = "returned"

C13_Fields ==
    /\ (init_pc = "line 29" /\ init_pc' = "line 31") =>
          \E c \in callers :
              /\ op[c] = "__init__"
              /\ Len(crc_result[c]) = 9
              /\ \A i \in 0..2 : ~BadWord(crc_result[c], i)
              /\ serial' = [i \in 1..3 |-> WordAt(crc_result[c], i - 1)]
    /\ (init_pc = "line 31" /\ init_pc' = "line 34") =>
          \E c \in callers :
              /\ op[c] = "__init__"
              /\ Len(crc_result[c]) = 3
              /\ ~BadWord(crc_result[c], 0)
              /\ WordAt(crc_result[c], 0) = 32
              /\ featureset' = << 32 >>

\* C13: a construction that succeeds has made exactly the calls write
\* [0x36, 0x82], sleep 10 ms, read 9 bytes, write [0x20, 0x2F], sleep 10 ms,
\* read 3 bytes, write [0x20, 0x03], sleep 10 ms, in that order; serial is
\* the three words of the 9-byte reply; [0x20, 0x03] is written only once
\* the feature-set reply was read, passed its checksum and equals 0x0020.
C13_Construction == []C13_Calls /\ [][C13_Fields]_vars

C13_Witness ==
    /\ init_pc = "returned"
    /\ ret[1].op = "__init__"
    /\ ret[1].exc = "none"
    /\ bus[1] = ConstructionCalls
    /\ serial = << 32, 48879, 32 >>

\* the number of calls of kind k in the log
CountCalls(log, k) == Cardinality({i \in 1..Len(log) : log[i].call = k})

\* the operations of a constructed object
Operations ==
    {"initalise_indoor_air_quality", "iaq_measure", "tvoc", "co2_equivalent",
     "iaq_baseline", "iaq_baseline.setter", "baseline_tvoc", "baseline_co2_equivilant",
     "iaq_baseline ="}

C14_AtMostOnce ==
    \A c \in callers :
        /\ (op[c] \in Operations \/ ret[c].op \in Operations) =>
              /\ CountCalls(bus[c], "writeto") <= 1
              /\ CountCalls(bus[c], "readfrom_into") <= 1
        /\ \A i, j \in 1..Len(bus[c]) :
              (bus[c][i].call = "writeto" /\ bus[c][i].data = bus[c][j].data) => i = j
        /\ CountCalls(bus[c], "readfrom_into") <= CountCalls(bus[c], "writeto")
        /\ OnlyLastRaised(bus[c])
        /\ (pc[c] = "return" /\ txret[c].exc \in {"CRC Error", "OSError"}) =>
              /\ LastCall(c).call \in {"writeto", "readfrom_into"}
              /\ txret[c].exc = "CRC Error" =>
                    LastCall(c) = ReadfromIntoCall(addr, 3 * reply_size[c], FALSE)
              /\ txret[c].exc = "OSError" => LastCall(c).raised
        /\ (op[c] = "none" /\ ret[c].exc \in {"CRC Error", "OSError"}) =>
              LastCall(c).call \in {"writeto", "readfrom_into"}

C14_NoFurtherCall ==
    \A c \in callers :
        /\ (pc[c] = "return" /\ txret[c].exc # "none") =>
              /\ bus'[c] = bus[c]
              /\ pc'[c] \in {"return", "idle"}
              /\ pc'[c] = "idle" => ret'[c].exc = txret[c].exc
        /\ (op[c] = "none" /\ bus'[c] # bus[c]) =>
              /\ bus'[c] = <<>>
              /\ ret'[c] # ret[c]

\* C14: nothing is retried.  A call of an operation makes at most one write
\* and at most one read, the constructor writes none of its commands
\* twice and no call reads more often than it writes; a checksum or transport failure is the last call of its log, the
\* step after it makes no call and hands the failure to the caller, and the
\* log of an idle caller changes only when a new call begins.
C14_NoRetries == []C14_AtMostOnce /\ [][C14_NoFurtherCall]_vars

C14_Witness ==
    /\ ret[1].op = "iaq_baseline"
    /\ ret[1].exc = "CRC Error"
    /\ CountCalls(bus[1], "writeto") = 1
    /\ CountCalls(bus[1], "readfrom_into") = 1

\* a transport failure of the write has reached the caller
C14_WitnessTransport ==
    /\ ret[1].op = "iaq_measure"
    /\ ret[1].exc = "OSError"
    /\ Len(bus[1]) = 1

\* caller c is between the write of its command and the end of its read
InFlight(c) == pc[c] \in {"sleep", "readfrom_into"}

\* C15: the driver takes no lock.  While the command of one caller is
\* between its write and its read, nothing in the driver holds back the
\* write of another caller's command, nor the start of another caller's
\* call; so a caller's read can follow the write of the other caller's
\* command.
C15_NoInternalLock ==
    \A a \in callers : \A b \in callers \ {a} :
        /\ (InFlight(a) /\ pc[b] = "writeto") =>
              ENABLED (I2cWriteto(b) /\ Wrote(b) /\ UNCHANGED << crcVars, codecVars >>)
        /\ (InFlight(a) /\ op[b] = "none" /\ init_pc = "returned") =>
              ENABLED (CallIaqMeasure(b) /\ Enter(b) /\ UNCHANGED << crcVars, codecVars >>)

\* caller 2 wrote its command after caller 1's write and before caller 1's
\* read; caller 1 has read while caller 2's command was the last one the
\* device received
C15_Witness ==
    /\ op[1] = "iaq_measure" /\ pc[1] = "return"
    /\ Len(crc_result[1]) = 6
    /\ read_after[1] = 2
    /\ op[2] = "iaq_baseline" /\ InFlight(2)
    /\ Written(1, <<32, 8>>) /\ Written(2, <<32, 21>>)

\* C16: when every call is made with the application's mutex held from its
\* start to its end, at most one call is in progress and at most one
\* command is between its write and its completion; while it is, no other
\* caller can write a command or begin a call; and every read follows the
\* write of the reader's own command with no other write between.
C16_Serialized ==
    /\ Cardinality({c \in callers : op[c] # "none"}) <= 1
    /\ Cardinality({c \in callers : pc[c] # "idle"}) <= 1
    /\ \A c \in callers : op[c] # "none" <=> lock = c
    /\ \A c \in callers : read_after[c] \in {0, c}
    /\ \A a \in callers : \A b \in callers \ {a} :
          (InFlight(a) \/ pc[a] \in {"writeto", "return"}) =>
              /\ ~ENABLED (I2cWriteto(b) /\ Wrote(b) /\ UNCHANGED << crcVars, codecVars >>)
              /\ ~ENABLED (CallIaqMeasure(b) /\ Enter(b) /\ UNCHANGED << crcVars, codecVars >>)

\* caller 2 runs a command after caller 1's call has ended, and both have
\* read the reply to their own command
C16_Witness ==
    /\ serialized
    /\ ret[1].op = "iaq_measure" /\ ret[1].exc = "none" /\ read_after[1] = 1
    /\ op[2] = "iaq_baseline" /\ pc[2] = "return" /\ read_after[2] = 2
    /\ lock = 2

C17_Address ==
    \A c \in callers :
        /\ op[c] = "__init__" => addr = args[c][1]
        /\ ret[c].op = "__init__" => addr = ret[c].args[1]
        /\ \A i \in 1..Len(bus[c]) :
              bus[c][i].call \in {"writeto", "readfrom_into"} => bus[c][i].addr = addr

C17_Frame ==
    /\ init_pc # "not called" => addr' = addr
    /\ init_pc \notin {"not called", "line 29"} => serial' = serial
    /\ init_pc = "returned" => (init_pc' = "returned" /\ Len(serial) = 3)

\* C17: the address is the one given to the constructor and no step after
\* it changes it; serial is not changed once line 29 has assigned it; so
\* every call of a constructed object, returning or raising, leaves both
\* as they were, and every write and read of every call goes to that
\* address.
C17_Immutable == []C17_Address /\ [][C17_Frame]_vars

C17_Witness ==
    /\ init_pc = "returned"
    /\ addr = 89
    /\ serial = << 48879, 32, 48879 >>
    /\ ret[1].op = "iaq_baseline"
    /\ ret[1].exc = "CRC Error"
    /\ bus[1][1].addr = 89 /\ bus[1][3].addr = 89

\* C18: a write or read that the bus fails is the last call of its
\* operation: after a failed write there is no sleep and no read, after a
\* failed read no buffer is decoded and no words are returned; the
\* transaction and then the call raise that same error, OSError, and not
\* 'CRC Error', another error of the driver or a return value; a
\* constructor it happens in hands out no object.
C18_TransportError ==
    \A c \in callers : \A i \in 1..Len(bus[c]) :
        bus[c][i].raised =>
            /\ i = Len(bus[c])
            /\ bus[c][i].call \in {"writeto", "readfrom_into"}
            /\ bus[c][i].call = "writeto" =>
                  (i = 1 \/ bus[c][i - 1].call # "writeto")
            /\ crc_result[c] = <<>>
            /\ pc[c] \in {"return", "idle"}
            /\ pc[c] = "return" => txret[c] = Raised("OSError")
            /\ pc[c] = "idle" =>
                  /\ op[c] = "none"
                  /\ ret[c].exc = "OSError"
                  /\ ret[c].kind = "None"
                  /\ ret[c].value = <<>>
                  /\ ret[c].op = "__init__" => init_pc = "raised"

\* the read of a measurement failed
C18_Witness ==
    /\ ret[1].op = "tvoc"
    /\ ret[1].exc = "OSError"
    /\ Len(bus[1]) = 3
    /\ bus[1][3].raised

\* the write of a command failed
C18_WitnessWrite ==
    /\ ret[1].op = "iaq_baseline.setter"
    /\ ret[1].exc = "OSError"
    /\ Len(bus[1]) = 1
    /\ bus[1][1].raised

\* the buffer caller c read last holds a word with a bad checksum
BadReply(c) ==
    /\ crc_result[c] # <<>>
    /\ \E i \in 0..((Len(crc_result[c]) \div 3) - 1) : BadWord(crc_result[c], i)

\* C19: when the 9-byte reply to [0x36, 0x82] holds a word with a bad
\* checksum, the constructor raises 'CRC Error' having written neither
\* [0x20, 0x2F] nor [0x20, 0x03]; when the 3-byte reply to [0x20, 0x2F]
\* does, it raises 'CRC Error' having not written [0x20, 0x03]; either
\* way no object is handed out and no further step is possible.
C19_FailFast ==
    \A c \in callers :
        ((op[c] = "__init__" \/ ret[c].op = "__init__") /\ BadReply(c)) =>
            /\ ~Written(c, <<32, 3>>)
            /\ Len(crc_result[c]) = 9 =>
                  (~Written(c, <<32, 47>>) /\ Len(bus[c]) = 3 /\ serial = <<>>)
            /\ Len(crc_result[c]) = 3 => (Len(bus[c]) = 6 /\ featureset = <<>>)
            /\ pc[c] \in {"return", "idle"}
            /\ pc[c] = "return" => txret[c] = Raised("CRC Error")
            /\ pc[c] = "idle" =>
                  /\ init_pc = "raised"
                  /\ ret[c].exc = "CRC Error"
                  /\ ret[c].value = <<>>
                  /\ ~ENABLED Next

\* the serial reply was bad
C19_Witness ==
    /\ init_pc = "raised"
    /\ ret[1].op = "__init__"
    /\ ret[1].exc = "CRC Error"
    /\ Len(crc_result[1]) = 9
    /\ ~BadWord(crc_result[1], 0) /\ ~BadWord(crc_result[1], 1) /\ BadWord(crc_result[1], 2)

\* the feature-set reply was bad
C19_WitnessFeatureset ==
    /\ init_pc = "raised"
    /\ ret[1].op = "__init__"
    /\ ret[1].exc = "CRC Error"
    /\ Len(crc_result[1]) = 3
    /\ Written(1, <<32, 47>>)

\* a pair of 16-bit values of which exactly one is zero
OneZero(a) ==
    /\ Len(a) = 2
    /\ a[1] \in 0..65535 /\ a[2] \in 0..65535
    /\ (a[1] = 0) # (a[2] = 0)

\* C20: 'Invalid baseline' is raised for the pair (0, 0) and for no other;
\* the setter called with a pair of 16-bit values of which exactly one is
\* zero enters its transaction, and its call has written the set-baseline
\* command for that pair once and no other command.
C20_OneZeroAccepted ==
    \A c \in callers :
        /\ (ret[c].op = "iaq_baseline.setter" /\ ret[c].exc = "Invalid baseline") =>
              ret[c].args = <<0, 0>>
        /\ (op[c] = "iaq_baseline.setter" /\ OneZero(args[c])) =>
              /\ pc[c] # "idle"
              /\ command[c] = SetBaselineBytes(args[c][1], args[c][2])
              /\ CountCalls(bus[c], "writeto") <= 1
        /\ (ret[c].op = "iaq_baseline.setter" /\ OneZero(ret[c].args)) =>
              /\ ret[c].exc \in {"none", "OSError"}
              /\ CountCalls(bus[c], "writeto") = 1
              /\ bus[c][1].call = "writeto"
              /\ bus[c][1].data = SetBaselineBytes(ret[c].args[1], ret[c].args[2])
              /\ ret[c].exc = "none" =>
                    bus[c] = SetBaselineCalls(ret[c].args[1], ret[c].args[2])

C20_Witness ==
    /\ ret[1].op = "iaq_baseline.setter"
    /\ ret[1].args = <<0, 1>>
    /\ ret[1].exc = "none"
    /\ bus[1][1].data = << 32, 30, 0, 1, 176, 0, 0, 129 >>

\* the reverse pair
C20_WitnessReverse ==
    /\ ret[1].op = "iaq_baseline.setter"
    /\ ret[1].args = <<1, 0>>
    /\ ret[1].exc = "none"
    /\ bus[1][1].data = << 32, 30, 0, 0, 129, 0, 1, 176 >>

====
